---- MODULE Spec2Model ----
(***************************************************************************)
(* Model of google/cloud/ndb/_datastore_api.py: the batching layer between *)
(* NDB application code and the Datastore backend.  Lookups, puts and      *)
(* deletes are collected into batches kept in the context, flushed by idle *)
(* callbacks of the event loop, and the responses of the remote calls are  *)
(* demultiplexed onto the futures handed to the callers.                   *)
(***************************************************************************)
EXTENDS Naturals, Sequences, FiniteSets, TLC

(***************************************************************************)
(* Bounds of the model.                                                    *)
(***************************************************************************)
MaxLookups == 3      \* lookups and Lookup responses that report deferred keys
MaxMutations == 3    \* puts and deletes outside a transaction
MaxWrites == 4       \* puts, deletes and commits of a transaction
MaxOperations == 3   \* operations and deferring responses when all are in play
MaxRetries == 3      \* Lookup responses that report deferred keys, for the retries

(***************************************************************************)
(* Values.                                                                 *)
(***************************************************************************)
None == "None"
EVENTUAL == "EVENTUAL"

LookupBatchCls == "_LookupBatch"
NonTransactionalCls == "_NonTransactionalCommitBatch"
TransactionalCls == "_TransactionalCommitBatch"

\* A key is the sequence of the ids of its path elements; 0 stands for a
\* path element that has neither an id nor a name.
EmptyKey == <<>>

Val(tag, key) == [tag |-> tag, key |-> key]
NoVal == Val("none", EmptyKey)
NoneVal == Val(None, EmptyKey)
_NOT_FOUND == Val("_NOT_FOUND", EmptyKey)
KeyVal(key) == Val("key", key)
\* the entity the backend holds under a key
Entity(key) == Val("entity", key)
ErrVal(name) == Val(name, EmptyKey)

Min(a, b) == IF a < b THEN a ELSE b
Range(s) == {s[i] : i \in DOMAIN s}

(***************************************************************************)
(* Option dictionaries: a sequence of <<name, value>> items in insertion   *)
(* order, names distinct.                                                  *)
(***************************************************************************)
\* the option names, in the order Python's sorted() gives them
OptionNames ==
    <<"bogus", "deadline", "force_writes", "max_memcache_items",
      "memcache_timeout", "propagation", "read_consistency", "read_policy",
      "retries", "transaction", "use_cache", "use_datastore", "use_memcache",
      "xg">>

OptionRank(name) == CHOOSE i \in DOMAIN OptionNames : OptionNames[i] = name

HasOption(options, name) == \E i \in DOMAIN options : options[i][1] = name

\* dict.get(name, default)
Get(options, name, default) ==
    IF HasOption(options, name)
    THEN options[CHOOSE i \in DOMAIN options : options[i][1] = name][2]
    ELSE default

\* dict.pop(name, None) on a copy
WithoutOption(options, name) ==
    SelectSeq(options, LAMBDA item : item[1] # name)

RECURSIVE InsertSorted(_, _)
InsertSorted(sorted, item) ==
    IF sorted = <<>> THEN <<item>>
    ELSE IF OptionRank(item[1]) < OptionRank(Head(sorted)[1])
         THEN <<item>> \o sorted
         ELSE <<Head(sorted)>> \o InsertSorted(Tail(sorted), item)

\* the items in insertion order, not sorted
UnsortedItems(options) == options

RECURSIVE SortedItems(_)
\* tuple(sorted(options.items()))
SortedItems(options) ==
    IF options = <<>> THEN <<>>
    ELSE InsertSorted(SortedItems(Tail(options)), Head(options))

_OPTIONS_SUPPORTED == {"transaction", "read_consistency", "read_policy"}
_OPTIONS_NOT_IMPLEMENTED ==
    {"deadline", "force_writes", "use_cache", "use_memcache", "use_datastore",
     "memcache_timeout", "max_memcache_items", "xg", "propagation", "retries"}

\* the check without its branch for the keys that are unknown altogether
RECURSIVE _check_not_implemented_options(_)
_check_not_implemented_options(options) ==
    IF options = <<>> THEN "ok"
    ELSE IF Head(options)[1] \in _OPTIONS_NOT_IMPLEMENTED THEN "NotImplementedError"
    ELSE _check_not_implemented_options(Tail(options))

RECURSIVE _check_unsupported_options(_)
\* "ok", or the error raised for the first offending key
_check_unsupported_options(options) ==
    IF options = <<>> THEN "ok"
    ELSE IF Head(options)[1] \in _OPTIONS_NOT_IMPLEMENTED THEN "NotImplementedError"
    ELSE IF Head(options)[1] \notin _OPTIONS_SUPPORTED THEN "NotImplementedError"
    ELSE _check_unsupported_options(Tail(options))

(***************************************************************************)
(* Keys.                                                                   *)
(***************************************************************************)
\* Key.SerializeToString(): each path element becomes a tag and its id
RECURSIVE SerializeToString(_)
SerializeToString(key) ==
    IF key = <<>> THEN <<>>
    ELSE <<"e", Head(key)>> \o SerializeToString(Tail(key))

\* Key.ParseFromString()
ParseFromString(bytes) == [i \in 1..(Len(bytes) \div 2) |-> bytes[2 * i]]

_complete(key) == Len(key) > 0 /\ key[Len(key)] # 0

(***************************************************************************)
(* State.                                                                  *)
(***************************************************************************)
VARIABLES
    context_transaction, \* context.transaction
    batches,             \* context.batches: class -> (options_key -> batch)
    commit_batches,      \* context.commit_batches: transaction -> batch
    heap,                \* the batch objects, by identity
    future,              \* the futures handed out, by identity
    asked,               \* the operation that each future was handed out for
    idlers,              \* the event loop's idle callbacks, in order
    calls,               \* every remote call issued, in order of issue
    pending,             \* the remote calls still in flight
    tasklets,            \* the invocations of commit()
    deferrals,           \* Lookup responses so far that deferred keys
    last,                \* outcome of the latest API call
    loop_errors          \* exceptions that escaped a callback into the loop

vars == <<context_transaction, batches, commit_batches, heap, future, asked,
          idlers, calls, pending, tasklets, deferrals, last, loop_errors>>

Pending == [st |-> "pending", val |-> NoVal]

done(f, h) == f[h].st # "pending"

\* Future.set_result / set_exception: a future keeps its first outcome
set_result(f, h, val) ==
    IF done(f, h) THEN f ELSE [f EXCEPT ![h] = [st |-> "result", val |-> val]]

set_exception(f, h, exc) ==
    IF done(f, h) THEN f ELSE [f EXCEPT ![h] = [st |-> "exception", val |-> ErrVal(exc)]]

RECURSIVE set_all(_, _, _)
set_all(f, hs, outcome) ==
    IF hs = <<>> THEN f
    ELSE set_all(IF done(f, Head(hs)) THEN f ELSE [f EXCEPT ![Head(hs)] = outcome],
                 Tail(hs), outcome)

NewBatch(cls, options) ==
    [cls |-> cls, options |-> options, todo |-> <<>>,
     mutations |-> <<>>, futures |-> <<>>, transaction |-> None,
     allocating_ids |-> <<>>, incomplete_mutations |-> <<>>,
     incomplete_futures |-> <<>>]

\* the outcome of a remote call: rpc.exception() and what the response
\* reported; served is the number of futures its callback was handed
NoReply == [st |-> "none", part |-> <<>>, served |-> 0]
Reply(st, part, served) == [st |-> st, part |-> part, served |-> served]

Call(kind, batch) ==
    [kind |-> kind, batch |-> batch, keys |-> <<>>, mutations |-> <<>>,
     transaction |-> None, read_consistency |-> None,
     muts |-> <<>>, futs |-> <<>>, marker |-> 0, tasklet |-> 0,
     reply |-> NoReply]

\* the part of the state _get_batch works on
Ctx == [batches |-> batches, heap |-> heap, idlers |-> idlers]

_get_transaction(options) == Get(options, "transaction", context_transaction)

(***************************************************************************)
(* The batch registry.                                                     *)
(***************************************************************************)
\* dict with one more entry / one entry less
DictPut(d, k, v) == [x \in DOMAIN d \cup {k} |-> IF x = k THEN v ELSE d[x]]
\* pop that leaves the entry in the dictionary
DictKeep(d, k) == d

DictPop(d, k) == [x \in DOMAIN d \ {k} |-> d[x]]
EmptyDict == [x \in {} |-> 0]

\* the closure idle() that _get_batch hands to the event loop
IdleClosure(cls, options_key) ==
    [fn |-> "idle", cls |-> cls, options_key |-> options_key, batch |-> 0]

\* the bound method batch.idle_callback of a transactional batch
IdleMethod(b) ==
    [fn |-> "idle_callback", cls |-> TransactionalCls, options_key |-> <<>>, batch |-> b]

\* _eventloop.add_idle
add_idle(queue, callback) == Append(queue, callback)

\* batch_cls(options): the constructor's error, or "ok"
Construct(cls, options) ==
    IF cls = LookupBatchCls THEN "ok" ELSE _check_unsupported_options(options)

\* _get_batch(batch_cls, options) on the state st: the state it leaves, the
\* batch it returns and the error it raises
_get_batch(st, cls, options) ==
    LET inner == IF cls \in DOMAIN st.batches THEN st.batches[cls] ELSE EmptyDict
        st1 == [st EXCEPT !.batches = DictPut(st.batches, cls, inner)]
        options_key == SortedItems(options)
        b == Len(st.heap) + 1
    IN  IF options_key \in DOMAIN inner
        THEN [st |-> st1, batch |-> inner[options_key], err |-> "ok"]
        ELSE IF Construct(cls, options) # "ok"
        THEN [st |-> st1, batch |-> 0, err |-> Construct(cls, options)]
        ELSE [st |-> [batches |-> DictPut(st.batches, cls, DictPut(inner, options_key, b)),
                      heap |-> Append(st.heap, NewBatch(cls, options)),
                      idlers |-> add_idle(st.idlers, IdleClosure(cls, options_key))],
              batch |-> b, err |-> "ok"]

(***************************************************************************)
(* Lookup.                                                                 *)
(***************************************************************************)
\* Extend without the search for the key's slot
ExtendAlwaysNew(todo, todo_key, hs) == Append(todo, [key |-> todo_key, futs |-> hs])

\* dict.setdefault(todo_key, []).extend(hs), the dict kept in insertion order
Extend(todo, todo_key, hs) ==
    IF \E i \in DOMAIN todo : todo[i].key = todo_key
    THEN [i \in DOMAIN todo |->
            IF todo[i].key = todo_key
            THEN [todo[i] EXCEPT !.futs = @ \o hs] ELSE todo[i]]
    ELSE Append(todo, [key |-> todo_key, futs |-> hs])

\* todo[todo_key]
Slot(todo, todo_key) == todo[CHOOSE i \in DOMAIN todo : todo[i].key = todo_key].futs

\* _LookupBatch.add
LookupBatch_add(batch, key, h) ==
    [batch EXCEPT !.todo = Extend(@, SerializeToString(key), <<h>>)]

Say(op, options, err, ret) == [op |-> op, options |-> options, err |-> err, ret |-> ret]
Ask(op, key, options) == [op |-> op, key |-> key, options |-> options]

lookup(key, options) ==
    /\ IF _check_unsupported_options(options) # "ok"
       THEN /\ last' = Say("lookup", options, _check_unsupported_options(options), 0)
            /\ UNCHANGED <<batches, heap, idlers, future, asked>>
       ELSE LET got == _get_batch(Ctx, LookupBatchCls, options)
                h == Len(future) + 1
            IN  /\ batches' = got.st.batches
                /\ idlers' = got.st.idlers
                /\ heap' = [got.st.heap EXCEPT ![got.batch] = LookupBatch_add(@, key, h)]
                /\ future' = Append(future, Pending)
                /\ asked' = Append(asked, Ask("lookup", key, options))
                /\ last' = Say("lookup", options, "ok", h)
    /\ UNCHANGED <<context_transaction, commit_batches, calls, pending, tasklets,
                   deferrals, loop_errors>>

\* _get_read_options: the read options, or the error raised
_get_read_options(options) ==
    LET transaction == _get_transaction(options)
        rc == Get(options, "read_consistency", None)
        read_consistency == IF rc = None THEN Get(options, "read_policy", None) ELSE rc
    IN  IF transaction # None /\ read_consistency = EVENTUAL
        THEN [err |-> "ValueError", read_consistency |-> None, transaction |-> None]
        ELSE [err |-> "ok", read_consistency |-> read_consistency,
              transaction |-> transaction]

\* _datastore_lookup(keys, read_options)
_datastore_lookup(b, keys, read_options) ==
    [Call("Lookup", b) EXCEPT !.keys = keys,
                              !.read_consistency = read_options.read_consistency,
                              !.transaction = read_options.transaction]

\* _eventloop.queue_rpc: the call is issued and its callback waits for it
QueueRpc(rpc) ==
    /\ calls' = Append(calls, rpc)
    /\ pending' = pending \cup {Len(calls) + 1}

\* idle_callback that issues one Lookup call for each key of the batch
LookupBatch_idle_callback_per_key(b) ==
    LET keys == [i \in DOMAIN heap[b].todo |-> ParseFromString(heap[b].todo[i].key)]
        read_options == _get_read_options(heap[b].options)
    IN  /\ calls' = calls \o [i \in DOMAIN keys |->
                                  _datastore_lookup(b, <<keys[i]>>, read_options)]
        /\ pending' = pending \cup (Len(calls) + 1 .. Len(calls) + Len(keys))
        /\ UNCHANGED loop_errors

\* _LookupBatch.idle_callback of batch b
LookupBatch_idle_callback(b) ==
    LET keys == [i \in DOMAIN heap[b].todo |-> ParseFromString(heap[b].todo[i].key)]
        read_options == _get_read_options(heap[b].options)
    IN  IF read_options.err # "ok"
        THEN /\ loop_errors' = loop_errors \cup {read_options.err}
             /\ UNCHANGED <<calls, pending>>
        ELSE /\ QueueRpc(_datastore_lookup(b, keys, read_options))
             /\ UNCHANGED loop_errors

\* the keys of a request that a response reports under one heading, in
\* request order
RECURSIVE Reported(_, _, _)
Reported(keys, part, heading) ==
    IF keys = <<>> THEN <<>>
    ELSE (IF Head(part) = heading THEN <<Head(keys)>> ELSE <<>>)
         \o Reported(Tail(keys), Tail(part), heading)

\* the deferred keys resubmitted with the first future of each only
RECURSIVE ResubmitFirst(_, _, _)
ResubmitFirst(next_todo, todo, deferred) ==
    IF deferred = <<>> THEN next_todo
    ELSE LET todo_key == SerializeToString(Head(deferred))
         IN  ResubmitFirst(Extend(next_todo, todo_key,
                                  <<Head(Slot(todo, todo_key))>>),
                           todo, Tail(deferred))

\* the deferred keys left out of next_batch
ResubmitNothing(next_todo, todo, deferred) == next_todo

\* lookup_callback, lines 205-209: the deferred keys go to next_batch with
\* the futures of this batch
RECURSIVE Resubmit(_, _, _)
Resubmit(next_todo, todo, deferred) ==
    IF deferred = <<>> THEN next_todo
    ELSE LET todo_key == SerializeToString(Head(deferred))
         IN  Resubmit(Extend(next_todo, todo_key, Slot(todo, todo_key)),
                      todo, Tail(deferred))

\* the missing keys reported to their futures as an error
RECURSIVE ResolveMissingAsError(_, _, _)
ResolveMissingAsError(f, todo, missing) ==
    IF missing = <<>> THEN f
    ELSE ResolveMissingAsError(
            set_all(f, Slot(todo, SerializeToString(Head(missing))),
                    [st |-> "exception", val |-> ErrVal("NotFound")]),
            todo, Tail(missing))

\* lookup_callback, lines 213-216
RECURSIVE ResolveMissing(_, _, _)
ResolveMissing(f, todo, missing) ==
    IF missing = <<>> THEN f
    ELSE ResolveMissing(
            set_all(f, Slot(todo, SerializeToString(Head(missing))),
                    [st |-> "result", val |-> _NOT_FOUND]),
            todo, Tail(missing))

\* lookup_callback, lines 219-223
RECURSIVE ResolveFound(_, _, _)
ResolveFound(f, todo, found) ==
    IF found = <<>> THEN f
    ELSE ResolveFound(
            set_all(f, Slot(todo, SerializeToString(Head(found))),
                    [st |-> "result", val |-> Entity(Head(found))]),
            todo, Tail(found))

\* every future of a lookup batch: itertools.chain(*self.todo.values())
RECURSIVE Chain(_)
Chain(todo) == IF todo = <<>> THEN <<>> ELSE Head(todo).futs \o Chain(Tail(todo))

\* the failure handed to the futures of the first key only
LookupBatch_lookup_callback_first_key(b, exception) ==
    /\ future' = set_all(future, Head(heap[b].todo).futs,
                         [st |-> "exception", val |-> ErrVal(exception)])
    /\ UNCHANGED <<batches, heap, idlers, deferrals>>

\* _LookupBatch.lookup_callback of batch b on a failed call
LookupBatch_lookup_callback_exception(b, exception) ==
    /\ future' = set_all(future, Chain(heap[b].todo),
                         [st |-> "exception", val |-> ErrVal(exception)])
    /\ UNCHANGED <<batches, heap, idlers, deferrals>>

\* _LookupBatch.lookup_callback of batch b on a response that reports the
\* keys of the request as part says
LookupBatch_lookup_callback(b, keys, part) ==
    LET todo == heap[b].todo
        deferred == Reported(keys, part, "deferred")
        got == _get_batch(Ctx, LookupBatchCls, heap[b].options)
        nb == got.batch
    IN  /\ IF deferred # <<>>
           THEN /\ batches' = got.st.batches
                /\ idlers' = got.st.idlers
                /\ heap' = [got.st.heap EXCEPT
                                ![nb].todo = Resubmit(@, todo, deferred)]
                /\ deferrals' = deferrals + 1
           ELSE UNCHANGED <<batches, heap, idlers, deferrals>>
        /\ future' = ResolveFound(
                         ResolveMissing(future, todo, Reported(keys, part, "missing")),
                         todo, Reported(keys, part, "found"))

Headings == {"found", "missing", "deferred"}

\* the Lookup call c completes and the event loop runs its callback
LookupResponse(c) ==
    /\ c \in pending
    /\ calls[c].kind = "Lookup"
    /\ pending' = pending \ {c}
    /\ \/ /\ LookupBatch_lookup_callback_exception(calls[c].batch, "TransportError")
          /\ calls' = [calls EXCEPT ![c].reply = Reply("TransportError", <<>>, 0)]
       \/ \E part \in [DOMAIN calls[c].keys -> Headings] :
            /\ LookupBatch_lookup_callback(calls[c].batch, calls[c].keys, part)
            /\ calls' = [calls EXCEPT ![c].reply = Reply("ok", part, 0)]
    /\ UNCHANGED <<context_transaction, commit_batches, asked, tasklets, last,
                   loop_errors>>

(***************************************************************************)
(* Commit batches.                                                         *)
(***************************************************************************)
Upsert(key) == [op |-> "upsert", key |-> key]
Delete(key) == [op |-> "delete", key |-> key]

\* _get_commit_batch that keeps one batch for all the transactions
_get_commit_batch_shared(st, transaction, options) ==
    LET rest == WithoutOption(options, "transaction")
        b == Len(st.heap) + 1
    IN  IF rest # <<>>
        THEN [st |-> st, batch |-> 0, err |-> "NotImplementedError"]
        ELSE IF DOMAIN st.commit_batches # {}
        THEN [st |-> st,
              batch |-> st.commit_batches[CHOOSE tr \in DOMAIN st.commit_batches : TRUE],
              err |-> "ok"]
        ELSE [st |-> [commit_batches |-> DictPut(st.commit_batches, transaction, b),
                      heap |-> Append(st.heap,
                                  [NewBatch(TransactionalCls,
                                            <<(<<"transaction", transaction>>)>>)
                                   EXCEPT !.transaction = transaction])],
              batch |-> b, err |-> "ok"]

\* _get_commit_batch(transaction, options) on the state st (commit_batches
\* and heap): the state it leaves, the batch it returns, the error it raises
_get_commit_batch(st, transaction, options) ==
    LET rest == WithoutOption(options, "transaction")
        b == Len(st.heap) + 1
    IN  IF rest # <<>>
        THEN [st |-> st, batch |-> 0, err |-> "NotImplementedError"]
        ELSE IF transaction \in DOMAIN st.commit_batches
        THEN [st |-> st, batch |-> st.commit_batches[transaction], err |-> "ok"]
        ELSE [st |-> [commit_batches |-> DictPut(st.commit_batches, transaction, b),
                      heap |-> Append(st.heap,
                                  [NewBatch(TransactionalCls,
                                            <<(<<"transaction", transaction>>)>>)
                                   EXCEPT !.transaction = transaction])],
              batch |-> b, err |-> "ok"]

CommitCtx == [commit_batches |-> commit_batches, heap |-> heap]

\* _NonTransactionalCommitBatch.put / .delete
NonTransactionalCommitBatch_add(batch, mutation, h) ==
    [batch EXCEPT !.mutations = Append(@, mutation), !.futures = Append(@, h)]

\* put that takes every key for an incomplete one
TransactionalCommitBatch_put_incomplete(batch, key, h) ==
    [batch EXCEPT !.futures = Append(@, h),
                  !.mutations = Append(@, Upsert(key)),
                  !.incomplete_mutations = Append(@, Len(batch.mutations) + 1),
                  !.incomplete_futures = Append(@, h)]

\* _TransactionalCommitBatch.put, the batch's own fields
TransactionalCommitBatch_put(batch, key, h) ==
    LET added == [batch EXCEPT !.futures = Append(@, h),
                               !.mutations = Append(@, Upsert(key))]
    IN  IF ~_complete(key)
        THEN [added EXCEPT !.incomplete_mutations = Append(@, Len(added.mutations)),
                           !.incomplete_futures = Append(@, h)]
        ELSE added

\* put(entity_pb, **options) and delete(key, **options); an entity is known
\* by its key
Submit(op, key, options) ==
    LET transaction == _get_transaction(options)
        h == Len(future) + 1
    IN
    /\ IF transaction # None
       THEN LET got == _get_commit_batch(CommitCtx, transaction, options)
                b == got.batch
            IN  IF got.err # "ok"
                THEN /\ last' = Say(op, options, got.err, 0)
                     /\ UNCHANGED <<batches, commit_batches, heap, idlers, future, asked>>
                ELSE /\ commit_batches' = got.st.commit_batches
                     /\ heap' = [got.st.heap EXCEPT ![b] =
                                    IF op = "put"
                                    THEN TransactionalCommitBatch_put(@, key, h)
                                    ELSE NonTransactionalCommitBatch_add(@, Delete(key), h)]
                     /\ idlers' = IF op = "put" /\ ~_complete(key)
                                     /\ got.st.heap[b].incomplete_mutations = <<>>
                                  THEN add_idle(idlers, IdleMethod(b))
                                  ELSE idlers
                     /\ future' = IF op = "put" /\ _complete(key)
                                  THEN Append(future, [st |-> "result", val |-> NoneVal])
                                  ELSE Append(future, Pending)
                     /\ asked' = Append(asked, Ask(op, key, options))
                     /\ last' = Say(op, options, "ok", h)
                     /\ UNCHANGED batches
       ELSE LET got == _get_batch(Ctx, NonTransactionalCls, options)
                b == got.batch
            IN  /\ batches' = got.st.batches
                /\ UNCHANGED commit_batches
                /\ IF got.err # "ok"
                   THEN /\ last' = Say(op, options, got.err, 0)
                        /\ UNCHANGED <<heap, idlers, future, asked>>
                   ELSE /\ heap' = [got.st.heap EXCEPT ![b] =
                                       NonTransactionalCommitBatch_add(@,
                                           IF op = "put" THEN Upsert(key) ELSE Delete(key), h)]
                        /\ idlers' = got.st.idlers
                        /\ future' = Append(future, Pending)
                        /\ asked' = Append(asked, Ask(op, key, options))
                        /\ last' = Say(op, options, "ok", h)
    /\ UNCHANGED <<context_transaction, calls, pending, tasklets, deferrals,
                   loop_errors>>

put(key, options) == Submit("put", key, options)
delete(key, options) == Submit("delete", key, options)

\* _datastore_commit(mutations, transaction): the request copies the mutations
_datastore_commit(b, mutations, transaction, t) ==
    [Call("Commit", b) EXCEPT !.mutations = mutations, !.transaction = transaction,
                              !.tasklet = t]

\* _NonTransactionalCommitBatch.idle_callback of batch b
NonTransactionalCommitBatch_idle_callback(b) ==
    /\ QueueRpc(_datastore_commit(b, heap[b].mutations, None, 0))
    /\ UNCHANGED loop_errors

\* _datastore_allocate_ids(keys)
_datastore_allocate_ids(b, keys, mutations, futures, marker) ==
    [Call("AllocateIds", b) EXCEPT !.keys = keys, !.muts = mutations,
                                   !.futs = futures, !.marker = marker]

\* idle_callback that leaves the incomplete lists as they are
TransactionalCommitBatch_idle_callback_keeps(b) ==
    LET batch == heap[b]
        mutations == batch.incomplete_mutations
        keys == [i \in DOMAIN mutations |-> batch.mutations[mutations[i]].key]
    IN  IF mutations = <<>>
        THEN UNCHANGED <<heap, calls, pending>>
        ELSE /\ heap' = [heap EXCEPT ![b].allocating_ids = Append(@, FALSE)]
             /\ QueueRpc(_datastore_allocate_ids(b, keys, mutations,
                             batch.incomplete_futures, Len(batch.allocating_ids) + 1))

\* _TransactionalCommitBatch.idle_callback of batch b
TransactionalCommitBatch_idle_callback(b) ==
    LET batch == heap[b]
        mutations == batch.incomplete_mutations
        keys == [i \in DOMAIN mutations |-> batch.mutations[mutations[i]].key]
    IN  IF mutations = <<>>
        THEN UNCHANGED <<heap, calls, pending>>
        ELSE /\ heap' = [heap EXCEPT ![b].allocating_ids = Append(@, FALSE),
                                     ![b].incomplete_mutations = <<>>,
                                     ![b].incomplete_futures = <<>>]
             /\ QueueRpc(_datastore_allocate_ids(b, keys, mutations,
                             batch.incomplete_futures, Len(batch.allocating_ids) + 1))

(***************************************************************************)
(* The event loop runs its next idle callback.                             *)
(***************************************************************************)
RunIdle ==
    /\ idlers # <<>>
    /\ idlers' = Tail(idlers)
    /\ LET callback == Head(idlers)
       IN  IF callback.fn = "idle"
           THEN \* idle(): batch = batches.pop(options_key); batch.idle_callback()
                LET b == batches[callback.cls][callback.options_key]
                IN  /\ batches' = [batches EXCEPT ![callback.cls] =
                                      DictPop(@, callback.options_key)]
                    /\ IF callback.cls = LookupBatchCls
                       THEN LookupBatch_idle_callback(b)
                       ELSE NonTransactionalCommitBatch_idle_callback(b)
                    /\ UNCHANGED heap
           ELSE /\ TransactionalCommitBatch_idle_callback(callback.batch)
                /\ UNCHANGED <<batches, loop_errors>>
    /\ UNCHANGED <<context_transaction, commit_batches, future, asked, tasklets,
                   deferrals, last>>

(***************************************************************************)
(* Identifier allocation.                                                  *)
(***************************************************************************)
\* the key the backend allocates for an incomplete key
Allocated(key, id) == IF key = <<>> THEN <<id>> ELSE [key EXCEPT ![Len(key)] = id]

\* allocate_ids_callback, lines 558-562.  Setting an outcome on a future
\* that is done either is refused, which ends the callback (reject), or
\* does nothing.
RECURSIVE AllocateFailed(_, _, _, _)
AllocateFailed(f, futures, exception, reject) ==
    IF futures = <<>> THEN [f |-> f, raised |-> FALSE]
    ELSE IF done(f, Head(futures))
         THEN IF reject THEN [f |-> f, raised |-> TRUE]
              ELSE AllocateFailed(f, Tail(futures), exception, reject)
         ELSE AllocateFailed(set_exception(f, Head(futures), exception),
                             Tail(futures), exception, reject)

\* the keys the backend returns for the AllocateIds call c
AllocatedKeys(c) ==
    [i \in DOMAIN calls[c].keys |-> Allocated(calls[c].keys[i], 10 * c + i)]

\* allocate_ids_callback that resolves the futures and leaves the mutations
\* of the batch as they are
RECURSIVE AllocateSucceededNoCopy(_, _, _, _, _, _)
AllocateSucceededNoCopy(ms, f, mutations, keys, futures, reject) ==
    IF mutations = <<>> \/ keys = <<>> \/ futures = <<>>
    THEN [ms |-> ms, f |-> f, raised |-> FALSE]
    ELSE IF done(f, Head(futures))
         THEN IF reject THEN [ms |-> ms, f |-> f, raised |-> TRUE]
              ELSE AllocateSucceededNoCopy(ms, f, Tail(mutations), Tail(keys),
                                           Tail(futures), reject)
         ELSE AllocateSucceededNoCopy(ms,
                                      set_result(f, Head(futures), KeyVal(Head(keys))),
                                      Tail(mutations), Tail(keys), Tail(futures),
                                      reject)

\* allocate_ids_callback, lines 565-568, on the batch's mutations ms
RECURSIVE AllocateSucceeded(_, _, _, _, _, _)
AllocateSucceeded(ms, f, mutations, keys, futures, reject) ==
    IF mutations = <<>> \/ keys = <<>> \/ futures = <<>>
    THEN [ms |-> ms, f |-> f, raised |-> FALSE]
    ELSE LET copied == [ms EXCEPT ![Head(mutations)].key = Head(keys)]
         IN  IF done(f, Head(futures))
             THEN IF reject THEN [ms |-> copied, f |-> f, raised |-> TRUE]
                  ELSE AllocateSucceeded(copied, f, Tail(mutations), Tail(keys),
                                         Tail(futures), reject)
             ELSE AllocateSucceeded(copied,
                                    set_result(f, Head(futures), KeyVal(Head(keys))),
                                    Tail(mutations), Tail(keys), Tail(futures), reject)

\* _TransactionalCommitBatch.allocate_ids_callback and the closure callback
\* of idle_callback (lines 541-545) for the AllocateIds call c
AllocateIdsResponse(c) ==
    LET b == calls[c].batch
        keys == AllocatedKeys(c)
    IN
    /\ c \in pending
    /\ calls[c].kind = "AllocateIds"
    /\ pending' = pending \ {c}
    /\ \E failed \in BOOLEAN, reject \in BOOLEAN :
         LET out == IF failed
                    THEN [ms |-> heap[b].mutations] @@
                         AllocateFailed(future, calls[c].futs, "TransportError", reject)
                    ELSE AllocateSucceeded(heap[b].mutations, future, calls[c].muts,
                                           keys, calls[c].futs, reject)
         IN  /\ future' = out.f
             /\ heap' = [heap EXCEPT ![b].mutations = out.ms,
                                     ![b].allocating_ids[calls[c].marker] =
                                         IF out.raised THEN @ ELSE TRUE]
             /\ loop_errors' = IF out.raised THEN loop_errors \cup {"RuntimeError"}
                               ELSE loop_errors
             /\ calls' = [calls EXCEPT ![c].reply =
                             Reply(IF failed THEN "TransportError" ELSE "ok", <<>>, 0)]
    /\ UNCHANGED <<context_transaction, batches, commit_batches, asked, idlers,
                   tasklets, deferrals, last>>

(***************************************************************************)
(* Commit.                                                                 *)
(***************************************************************************)
Tasklet(b, pc, i, waited) == [batch |-> b, pc |-> pc, i |-> i, waited |-> waited]

\* NextUnfinished of a commit that waits for no marker
NeverUnfinished(allocating_ids, i) == 0

\* the first marker at or after position i that is not done, or 0
NextUnfinished(allocating_ids, i) ==
    LET unfinished == {j \in i..Len(allocating_ids) : ~allocating_ids[j]}
    IN  IF unfinished = {} THEN 0
        ELSE CHOOSE j \in unfinished : \A k \in unfinished : j <= k

\* _TransactionalCommitBatch.commit from its loop over allocating_ids at
\* position i to its next yield, for tasklet t on the heap hp
Advance(hp, t, b, i, waited) ==
    LET n == NextUnfinished(hp[b].allocating_ids, i)
    IN  IF n # 0
        THEN /\ tasklets' = [k \in DOMAIN tasklets \cup {t} |->
                                IF k = t THEN Tasklet(b, "await", n, TRUE)
                                ELSE tasklets[k]]
             /\ heap' = hp
             /\ UNCHANGED <<calls, pending>>
        ELSE /\ tasklets' = [k \in DOMAIN tasklets \cup {t} |->
                                IF k = t THEN Tasklet(b, "sent", 0, waited)
                                ELSE tasklets[k]]
             /\ heap' = [hp EXCEPT ![b].incomplete_mutations = <<>>,
                                   ![b].incomplete_futures = <<>>]
             /\ QueueRpc(_datastore_commit(b, hp[b].mutations, hp[b].transaction, t))

\* commit that does not look whether the batch has mutations
commit_unconditional(transaction) ==
    LET got == _get_commit_batch(CommitCtx, transaction, <<>>)
        t == Len(tasklets) + 1
    IN
    /\ commit_batches' = got.st.commit_batches
    /\ Advance(got.st.heap, t, got.batch, 1, FALSE)
    /\ last' = Say("commit", <<>>, "ok", t)
    /\ UNCHANGED <<context_transaction, batches, future, asked, idlers, deferrals,
                   loop_errors>>

\* commit(transaction)
commit(transaction) ==
    LET got == _get_commit_batch(CommitCtx, transaction, <<>>)
        b == got.batch
        t == Len(tasklets) + 1
    IN
    /\ commit_batches' = got.st.commit_batches
    /\ IF got.st.heap[b].mutations = <<>>
       THEN /\ tasklets' = Append(tasklets, Tasklet(b, "done", 0, FALSE))
            /\ heap' = got.st.heap
            /\ UNCHANGED <<calls, pending>>
       ELSE Advance(got.st.heap, t, b, 1, FALSE)
    /\ last' = Say("commit", <<>>, "ok", t)
    /\ UNCHANGED <<context_transaction, batches, future, asked, idlers, deferrals,
                   loop_errors>>

\* the marker that tasklet t waits for is done: commit() goes on
Resume(t) ==
    /\ t \in DOMAIN tasklets
    /\ tasklets[t].pc = "await"
    /\ heap[tasklets[t].batch].allocating_ids[tasklets[t].i]
    /\ Advance(heap, t, tasklets[t].batch, tasklets[t].i + 1, TRUE)
    /\ UNCHANGED <<context_transaction, batches, commit_batches, future, asked,
                   idlers, deferrals, last, loop_errors>>

\* the exception set on every future of the list, done or not
_process_commit_exception_on_all(f, futures, exception) ==
    [h \in DOMAIN f |->
        IF h \in Range(futures)
        THEN [st |-> "exception", val |-> ErrVal(exception)] ELSE f[h]]

\* _process_commit on a failed call
_process_commit_exception(f, futures, exception) ==
    set_all(f, futures, [st |-> "exception", val |-> ErrVal(exception)])

\* _process_commit that pairs the futures with the results in reverse
_process_commit_reversed(f, mutation_results, futures) ==
    LET n == Min(Len(mutation_results), Len(futures))
    IN  [h \in DOMAIN f |->
            IF \E i \in 1..n : futures[i] = h /\ ~done(f, h)
            THEN LET i == CHOOSE i \in 1..n : futures[i] = h
                     key == mutation_results[Len(mutation_results) + 1 - i]
                 IN  [st |-> "result",
                      val |-> IF key # <<>> THEN KeyVal(key) ELSE NoneVal]
            ELSE f[h]]

\* _process_commit on a response: zip(response.mutation_results, futures)
RECURSIVE _process_commit(_, _, _)
_process_commit(f, mutation_results, futures) ==
    IF mutation_results = <<>> \/ futures = <<>> THEN f
    ELSE LET key == Head(mutation_results)
             result == IF key # <<>> THEN KeyVal(key) ELSE NoneVal
         IN  _process_commit(
                IF done(f, Head(futures)) THEN f
                ELSE set_result(f, Head(futures), result),
                Tail(mutation_results), Tail(futures))

\* the results of the backend for the mutations of the Commit call c: a key
\* where the mutation made it allocate one, a key with an empty path elsewhere
MutationResults(c) ==
    [i \in DOMAIN calls[c].mutations |->
        LET mutation == calls[c].mutations[i]
        IN  IF mutation.op = "upsert" /\ ~_complete(mutation.key)
            THEN Allocated(mutation.key, 10 * c + i) ELSE <<>>]

\* the Commit call c completes: commit_callback of either kind of batch
CommitResponse(c) ==
    LET b == calls[c].batch
        t == calls[c].tasklet
    IN
    /\ c \in pending
    /\ calls[c].kind = "Commit"
    /\ pending' = pending \ {c}
    /\ \/ /\ future' = _process_commit_exception(future, heap[b].futures, "TransportError")
          /\ tasklets' = IF t = 0 THEN tasklets
                         ELSE [tasklets EXCEPT ![t].pc = "failed"]
          /\ calls' = [calls EXCEPT ![c].reply =
                          Reply("TransportError", <<>>, Len(heap[b].futures))]
       \/ /\ future' = _process_commit(future, MutationResults(c), heap[b].futures)
          /\ tasklets' = IF t = 0 THEN tasklets
                         ELSE [tasklets EXCEPT ![t].pc = "done"]
          /\ calls' = [calls EXCEPT ![c].reply =
                          Reply("ok", <<>>, Len(heap[b].futures))]
    /\ UNCHANGED <<context_transaction, batches, commit_batches, heap, asked,
                   idlers, deferrals, last, loop_errors>>

(***************************************************************************)
(* The inputs and the specification.                                       *)
(***************************************************************************)
Transactions == {"T1"}
LookupKeys == {<<1>>, <<2>>}
PutKeys == {<<1>>, <<1, 0>>}
DeleteKeys == {<<2>>}

InTransaction == <<(<<"transaction", "T1">>)>>
Eventually == <<(<<"read_consistency", EVENTUAL>>)>>
Deadline == <<(<<"deadline", "1">>)>>
Bogus == <<(<<"bogus", "1">>)>>

Policy == <<(<<"read_policy", EVENTUAL>>)>>

\* one option set written in its two orders, and the empty one
RegistryOptions == {<<>>, Eventually \o Policy, Policy \o Eventually}

\* two transactions of one context, and the options that name them or none
SessionTransactions == {"T1", "T2"}
SessionOptions == {<<>>} \cup {<<(<<"transaction", tr>>)>> : tr \in SessionTransactions}

\* options of the operations when every operation is in play
GoodOptions == {<<>>, Eventually}
LookupOptions == {<<>>, InTransaction \o Eventually, Deadline}
WriteOptions == {<<>>, InTransaction, Bogus, InTransaction \o Eventually}

Init ==
    /\ context_transaction = None
    /\ batches = EmptyDict
    /\ commit_batches = EmptyDict
    /\ heap = <<>>
    /\ future = <<>>
    /\ asked = <<>>
    /\ idlers = <<>>
    /\ calls = <<>>
    /\ pending = {}
    /\ tasklets = <<>>
    /\ deferrals = 0
    /\ last = Say("none", <<>>, "ok", 0)
    /\ loop_errors = {}

\* lookups only
NextLookup ==
    \/ \E key \in LookupKeys, options \in GoodOptions :
          /\ Len(future) + deferrals < MaxLookups
          /\ options # <<>> => key = <<1>>
          /\ lookup(key, options)
    \/ RunIdle
    \/ \E c \in DOMAIN calls :
          LookupResponse(c) /\ Len(future) + deferrals' <= MaxLookups

SpecLookup == Init /\ [][NextLookup]_vars

\* puts and deletes outside a transaction
NextCommit ==
    \/ \E key \in PutKeys, options \in GoodOptions :
          Len(future) < MaxMutations /\ put(key, options)
    \/ \E key \in DeleteKeys, options \in GoodOptions :
          Len(future) < MaxMutations /\ delete(key, options)
    \/ RunIdle
    \/ \E c \in DOMAIN calls : CommitResponse(c)

SpecCommit == Init /\ [][NextCommit]_vars

\* puts, deletes and commits of a transaction
NextTransaction ==
    \/ \E key \in PutKeys :
          Len(future) + Len(tasklets) < MaxWrites /\ put(key, InTransaction)
    \/ \E key \in DeleteKeys :
          Len(future) + Len(tasklets) < MaxWrites /\ delete(key, InTransaction)
    \/ \E transaction \in Transactions :
          Len(future) + Len(tasklets) < MaxWrites /\ commit(transaction)
    \/ RunIdle
    \/ \E c \in DOMAIN calls : AllocateIdsResponse(c)
    \/ \E c \in DOMAIN calls : CommitResponse(c)
    \/ \E t \in DOMAIN tasklets : Resume(t)

SpecTransaction == Init /\ [][NextTransaction]_vars

\* one lookup for each key and a backend that defers keys time and again;
\* the event loop runs its idle callbacks and every call completes
NextRetry ==
    \/ \E key \in LookupKeys :
          Len(future) < Cardinality(LookupKeys) /\ lookup(key, <<>>)
    \/ RunIdle
    \/ \E c \in DOMAIN calls : LookupResponse(c) /\ deferrals' <= MaxRetries

SpecRetry ==
    /\ Init /\ [][NextRetry]_vars
    /\ WF_vars(RunIdle)
    /\ WF_vars(\E c \in DOMAIN calls : LookupResponse(c) /\ deferrals' <= MaxRetries)

\* every operation, with options it accepts and options it refuses
Next ==
    \/ \E options \in LookupOptions :
          Len(future) + deferrals < MaxOperations /\ lookup(<<1>>, options)
    \/ \E options \in WriteOptions :
          Len(future) + deferrals < MaxOperations /\ put(<<1, 0>>, options)
    \/ \E options \in WriteOptions :
          Len(future) + deferrals < MaxOperations /\ delete(<<2>>, options)
    \/ RunIdle
    \/ \E c \in DOMAIN calls :
          LookupResponse(c) /\ Len(future) + deferrals' <= MaxOperations
    \/ \E c \in DOMAIN calls : AllocateIdsResponse(c)
    \/ \E c \in DOMAIN calls : CommitResponse(c)

Spec == Init /\ [][Next]_vars

\* lookups and puts outside a transaction whose options differ in the order
\* of their items only
NextRegistry ==
    \/ \E options \in RegistryOptions :
          Len(future) + deferrals < MaxOperations /\ lookup(<<1>>, options)
    \/ \E options \in RegistryOptions :
          Len(future) + deferrals < MaxOperations /\ put(<<1>>, options)
    \/ RunIdle
    \/ \E c \in DOMAIN calls :
          LookupResponse(c) /\ Len(future) + deferrals' <= MaxOperations
    \/ \E c \in DOMAIN calls : CommitResponse(c)

SpecRegistry == Init /\ [][NextRegistry]_vars

\* puts and deletes inside two transactions and outside any, and the commits
\* of the transactions
NextSession ==
    \/ \E options \in SessionOptions :
          Len(future) + Len(tasklets) < MaxOperations /\ put(<<1, 0>>, options)
    \/ \E options \in SessionOptions :
          Len(future) + Len(tasklets) < MaxOperations /\ delete(<<2>>, options)
    \/ \E transaction \in SessionTransactions :
          Len(future) + Len(tasklets) < MaxOperations /\ commit(transaction)
    \/ RunIdle
    \/ \E c \in DOMAIN calls : AllocateIdsResponse(c)
    \/ \E c \in DOMAIN calls : CommitResponse(c)
    \/ \E t \in DOMAIN tasklets : Resume(t)

SpecSession == Init /\ [][NextSession]_vars

(***************************************************************************)
(* Properties.                                                             *)
(***************************************************************************)
\* batch b is in the registry of open batches
IsOpen(b) ==
    \E cls \in DOMAIN batches : \E k \in DOMAIN batches[cls] : batches[cls][k] = b

CallsOf(kind, b) == {c \in DOMAIN calls : calls[c].kind = kind /\ calls[c].batch = b}

LookupBatches == {b \in DOMAIN heap : heap[b].cls = LookupBatchCls}

\* the open lookup batches, by options key
OpenLookups ==
    IF LookupBatchCls \in DOMAIN batches THEN batches[LookupBatchCls] ELSE EmptyDict

\* One slot per distinct key, one Lookup call per flushed batch over exactly
\* the keys of its slots, none for an open batch, and one outcome per slot.
C1_OneCallPerBatch ==
    \A b \in LookupBatches :
        LET todo == heap[b].todo
            cs == CallsOf("Lookup", b)
        IN  /\ \A i, j \in DOMAIN todo : i # j => todo[i].key # todo[j].key
            /\ \A i \in DOMAIN todo : \A h \in Range(todo[i].futs) :
                  /\ SerializeToString(asked[h].key) = todo[i].key
                  /\ \A g \in Range(todo[i].futs) : future[g] = future[h]
            /\ IsOpen(b) => cs = {}
            /\ (~IsOpen(b) /\ _get_read_options(heap[b].options).err = "ok") =>
                  /\ Cardinality(cs) = 1
                  /\ \A c \in cs :
                        /\ Len(calls[c].keys) = Len(todo)
                        /\ \A i \in DOMAIN todo :
                              SerializeToString(calls[c].keys[i]) = todo[i].key
                        /\ \A i, j \in DOMAIN calls[c].keys :
                              i # j => calls[c].keys[i] # calls[c].keys[j]

\* A lookup whose options have an open batch joins that batch: no batch is
\* made, no idle callback is added and no call is issued.
C1_JoinsOpenBatch ==
    LET h == Len(future) + 1
    IN  (/\ Len(future') = h
         /\ asked'[h].op = "lookup"
         /\ SortedItems(asked'[h].options) \in DOMAIN OpenLookups)
        => LET b == OpenLookups[SortedItems(asked'[h].options)]
           IN  /\ Len(heap') = Len(heap)
               /\ h \in Range(Chain(heap'[b].todo))
               /\ idlers' = idlers
               /\ calls' = calls

\* C1: lookups made with identical options before the idle callback runs
\* share one batch, that batch issues exactly one Lookup call, the call holds
\* each distinct serialized key once, and all the futures of one key get the
\* same outcome.
C1_Coalesced == [][C1_JoinsOpenBatch /\ C1_OneCallPerBatch']_vars

\* two lookups of one key and one of another were answered by one call
C1_Witness ==
    \E b \in LookupBatches :
        /\ Len(heap[b].todo) = 2
        /\ \E i \in DOMAIN heap[b].todo : Len(heap[b].todo[i].futs) = 2
        /\ \A h \in Range(Chain(heap[b].todo)) : future[h].st = "result"
        /\ Cardinality({c \in DOMAIN calls : calls[c].kind = "Lookup"}) = 1

TransactionalBatches == {b \in DOMAIN heap : heap[b].cls = TransactionalCls}

\* the mutation that put / delete makes of what was asked
MutationOf(ask) == IF ask.op = "put" THEN "upsert" ELSE "delete"

\* When the Commit call of a transaction is issued, no AllocateIds call of
\* its batch is in flight and every marker of the batch is done.
C2_IssuedAfterAllocation ==
    \A c \in DOMAIN calls' \ DOMAIN calls :
        (calls'[c].kind = "Commit" /\ calls'[c].transaction # None) =>
            LET b == calls'[c].batch
            IN  /\ ~\E a \in pending :
                      calls[a].kind = "AllocateIds" /\ calls[a].batch = b
                /\ \A j \in DOMAIN heap'[b].allocating_ids :
                      heap'[b].allocating_ids[j]

\* a commit() that waits for a marker has issued no Commit call
C2_Suspended ==
    \A t \in DOMAIN tasklets :
        tasklets[t].pc = "await" =>
            ~\E c \in DOMAIN calls : calls[c].kind = "Commit" /\ calls[c].tasklet = t

\* C2: the Commit call of a transaction is never issued while an
\* AllocateIds call issued for that transaction has not completed; commit()
\* is suspended until every marker of an allocation in flight is done.
C2_CommitWaits == [][C2_IssuedAfterAllocation /\ C2_Suspended']_vars

\* a commit() that was suspended on a marker went on to issue its call
C2_Witness ==
    \E t \in DOMAIN tasklets :
        /\ tasklets[t].waited
        /\ \E c \in DOMAIN calls : calls[c].kind = "Commit" /\ calls[c].tasklet = t

\* C3: all the mutations accepted for a transaction are carried, in the
\* order of their submission, by one single Commit call with the
\* transaction's id: there is no second call and no mutation outside it.
C3_SingleCommit ==
    \A b \in TransactionalBatches :
        LET cs == CallsOf("Commit", b)
        IN  /\ Cardinality(cs) <= 1
            /\ \A c \in cs :
                  /\ calls[c].transaction = heap[b].transaction
                  /\ Len(calls[c].mutations) = Len(heap[b].mutations)
                  /\ \A i \in DOMAIN calls[c].mutations :
                        calls[c].mutations[i].op = MutationOf(asked[heap[b].futures[i]])

NonTransactionalBatches == {b \in DOMAIN heap : heap[b].cls = NonTransactionalCls}

\* the mutation that put / delete appends for what was asked
Mutation(ask) == IF ask.op = "put" THEN Upsert(ask.key) ELSE Delete(ask.key)

\* C4: a batch of puts and deletes outside a transaction is written by one
\* Commit call without transaction id that carries the mutations in the
\* order of submission, and on success the i-th mutation result resolves the
\* i-th future: with the key returned when its path is not empty, with None
\* otherwise.
C4_Positional ==
    \A b \in NonTransactionalBatches :
        LET cs == CallsOf("Commit", b)
            futures == heap[b].futures
        IN  /\ IsOpen(b) => cs = {}
            /\ ~IsOpen(b) => Cardinality(cs) = 1
            /\ \A i, j \in DOMAIN futures : i < j => futures[i] < futures[j]
            /\ \A c \in cs :
                  /\ calls[c].transaction = None
                  /\ Len(calls[c].mutations) = Len(futures)
                  /\ \A i \in DOMAIN futures :
                        /\ calls[c].mutations[i] = Mutation(asked[futures[i]])
                        /\ calls[c].reply.st = "none" => ~done(future, futures[i])
                        /\ calls[c].reply.st = "ok" =>
                              future[futures[i]] =
                                 [st |-> "result",
                                  val |-> IF MutationResults(c)[i] # <<>>
                                          THEN KeyVal(MutationResults(c)[i])
                                          ELSE NoneVal]

\* one Commit call answered a delete and a put that needed a key
C4_Witness ==
    \E b \in NonTransactionalBatches : \E i, j \in DOMAIN heap[b].futures :
        /\ i < j
        /\ asked[heap[b].futures[i]].op = "delete"
        /\ future[heap[b].futures[i]] = [st |-> "result", val |-> NoneVal]
        /\ asked[heap[b].futures[j]].op = "put"
        /\ future[heap[b].futures[j]].st = "result"
        /\ future[heap[b].futures[j]].val.tag = "key"

Failed(exception) == [st |-> "exception", val |-> ErrVal(exception)]

\* C5: when the Lookup call of a batch fails, every future of that batch,
\* whatever its key, gets that error, and no future of another batch and no
\* batch changes.
C5_FailureStep ==
    \A c \in pending :
        (/\ c \notin pending'
         /\ calls[c].kind = "Lookup"
         /\ calls'[c].reply.st = "TransportError")
        => LET hs == Range(Chain(heap[calls[c].batch].todo))
           IN  /\ hs # {}
               /\ \A h \in hs : ~done(future, h) /\ future'[h] = Failed("TransportError")
               /\ \A h \in DOMAIN future \ hs : future'[h] = future[h]
               /\ UNCHANGED <<heap, batches, idlers>>

C5_FailureFansOut == [][C5_FailureStep]_vars

\* a failed call for two keys beside a future of another batch that it left
\* alone
C5_Witness ==
    \E c \in DOMAIN calls :
        /\ calls[c].kind = "Lookup"
        /\ calls[c].reply.st = "TransportError"
        /\ Len(calls[c].keys) = 2
        /\ \A h \in Range(Chain(heap[calls[c].batch].todo)) :
              future[h] = Failed("TransportError")
        /\ \E h \in DOMAIN future \ Range(Chain(heap[calls[c].batch].todo)) :
              future[h].st # "exception"

\* the batch a future waits in: the last created of the batches that hold it
BatchOf(h) ==
    CHOOSE b \in LookupBatches :
        /\ h \in Range(Chain(heap[b].todo))
        /\ \A o \in LookupBatches : h \in Range(Chain(heap[o].todo)) => o <= b

\* what the reply of a Lookup call means for a future of its batch
Outcome(reply, keys, key) ==
    IF reply.st # "ok" THEN Failed(reply.st)
    ELSE LET i == CHOOSE i \in DOMAIN keys : keys[i] = key
         IN  [st |-> "result",
              val |-> IF reply.part[i] = "found" THEN Entity(key) ELSE _NOT_FOUND]

\* a response that defers keys leaves their futures pending and hands them,
\* under their key, to another batch with the same options that is open
\* after the step; fresh tells whether that batch must be created by the step
C6_DeferredStep(fresh) ==
    \A c \in pending :
        (/\ c \notin pending'
         /\ calls[c].kind = "Lookup"
         /\ calls'[c].reply.st = "ok")
        => LET b == calls[c].batch
               deferred == Reported(calls[c].keys, calls'[c].reply.part, "deferred")
           IN  deferred # <<>> =>
                 \E nb \in DOMAIN heap' \ {b} :
                    /\ IsOpen(nb)'
                    /\ heap'[nb].cls = LookupBatchCls
                    /\ heap'[nb].options = heap[b].options
                    /\ IF fresh THEN nb \notin DOMAIN heap
                       ELSE nb \in DOMAIN heap => IsOpen(nb)
                    /\ \A i \in DOMAIN deferred :
                          LET todo_key == SerializeToString(deferred[i])
                          IN  /\ \E j \in DOMAIN heap'[nb].todo :
                                    heap'[nb].todo[j].key = todo_key
                              /\ \A h \in Range(Slot(heap[b].todo, todo_key)) :
                                    /\ ~done(future', h)
                                    /\ h \in Range(Slot(heap'[nb].todo, todo_key))

\* a future of a lookup is resolved only by the reply to the call of the
\* batch it waits in, with what that reply reports for its key
C6_RetryStep ==
    \A h \in DOMAIN future :
        (asked[h].op = "lookup" /\ ~done(future, h) /\ done(future', h))
        => \E c \in pending \ pending' :
              /\ calls[c].kind = "Lookup"
              /\ calls[c].batch = BatchOf(h)
              /\ future'[h] = Outcome(calls'[c].reply, calls[c].keys, asked[h].key)

IncompletePuts ==
    {h \in DOMAIN asked : /\ asked[h].op = "put"
                          /\ HasOption(asked[h].options, "transaction")
                          /\ ~_complete(asked[h].key)}

\* the batch of a future of a transaction and its position there
TransactionalBatchOf(h) ==
    CHOOSE b \in TransactionalBatches : h \in Range(heap[b].futures)

PositionOf(h) ==
    LET futures == heap[TransactionalBatchOf(h)].futures
    IN  CHOOSE p \in DOMAIN futures : futures[p] = h

\* the allocation rounds that contain the future h
RoundsOf(h) ==
    {a \in DOMAIN calls : calls[a].kind = "AllocateIds" /\ h \in Range(calls[a].futs)}

\* the key that the round a allocates for the future h
AllocatedFor(a, h) ==
    AllocatedKeys(a)[CHOOSE i \in DOMAIN calls[a].futs : calls[a].futs[i] = h]

Result(key) == [st |-> "result", val |-> KeyVal(key)]

C7_ResolveStep ==
    \A h \in IncompletePuts :
        (~done(future, h) /\ done(future', h))
        => \E c \in pending \ pending' :
              \/ /\ c \in RoundsOf(h)
                 /\ future'[h] = IF calls'[c].reply.st = "ok"
                                  THEN Result(AllocatedFor(c, h))
                                  ELSE Failed(calls'[c].reply.st)
              \/ /\ calls[c].kind = "Commit"
                 /\ calls[c].batch = TransactionalBatchOf(h)
                 /\ IF calls'[c].reply.st = "ok"
                    THEN /\ PositionOf(h) <= Len(calls[c].mutations)
                         /\ ~_complete(calls[c].mutations[PositionOf(h)].key)
                         /\ future'[h] = Result(MutationResults(c)[PositionOf(h)])
                    ELSE future'[h] = Failed(calls'[c].reply.st)

\* once a round gave a future its key, the batch and every Commit call that
\* carries the mutation have that key in the place of the incomplete one
C7_Substituted ==
    \A h \in IncompletePuts : \A a \in RoundsOf(h) :
        future[h] = Result(AllocatedFor(a, h))
        => LET b == TransactionalBatchOf(h)
               p == PositionOf(h)
           IN  /\ heap[b].mutations[p].key = AllocatedFor(a, h)
               /\ \A c \in CallsOf("Commit", b) :
                     p <= Len(calls[c].mutations) =>
                        calls[c].mutations[p].key = AllocatedFor(a, h)

Contradictory(options) ==
    /\ HasOption(options, "transaction")
    /\ Get(options, "read_consistency", None) = EVENTUAL

\* C8: a lookup with a transaction and eventual read consistency in its
\* options raises ValueError in the lookup call itself: it returns no future,
\* no batch has such options and no idle callback raises the error later.
C8_FailsInLookup ==
    /\ (last.op = "lookup" /\ Contradictory(last.options)) => last.err = "ValueError"
    /\ \A h \in DOMAIN asked :
          asked[h].op = "lookup" => ~Contradictory(asked[h].options)
    /\ \A b \in LookupBatches : ~Contradictory(heap[b].options)
    /\ "ValueError" \notin loop_errors

\* options with a key outside the supported ones
Unsupported(options) ==
    \E i \in DOMAIN options : options[i][1] \notin _OPTIONS_SUPPORTED

C9_Raised == Unsupported(last.options) => last.err = "NotImplementedError"

C9_NothingDone ==
    (last' # last /\ last'.err = "NotImplementedError")
    => /\ last'.ret = 0
       /\ \A cls \in DOMAIN batches' :
             \A k \in DOMAIN batches'[cls] :
                /\ cls \in DOMAIN batches
                /\ k \in DOMAIN batches[cls]
                /\ batches'[cls][k] = batches[cls][k]
       /\ UNCHANGED <<commit_batches, heap, idlers, calls, pending, future, asked>>

\* C9: lookup, put and delete with an option key that is not supported raise
\* NotImplementedError to the caller, and an operation that raises it
\* registers no batch in either registry, adds nothing to a batch, schedules
\* no idle callback and issues no call.
C9_FailFast == [][C9_NothingDone /\ C9_Raised']_vars

\* an operation with an unsupported key was refused while a batch was open
\* and an idle callback scheduled
C9_Witness ==
    /\ last.op \in {"lookup", "put", "delete"}
    /\ Unsupported(last.options)
    /\ last.err = "NotImplementedError"
    /\ \E b \in DOMAIN heap : IsOpen(b)
    /\ idlers # <<>>

\* nothing is left to run: no idle callback, no call in flight, no commit()
\* that can go on
Quiescent ==
    /\ idlers = <<>>
    /\ pending = {}
    /\ \A t \in DOMAIN tasklets :
          tasklets[t].pc = "await"
          => ~heap[tasklets[t].batch].allocating_ids[tasklets[t].i]

\* C10: no future is lost.  When every call has completed and nothing is
\* left to run, every future of a lookup and of a put or delete outside a
\* transaction is done, and so is every future of a put or delete in a
\* transaction whose commit was invoked and had its Commit call completed.
C10_NoSilentLoss ==
    Quiescent =>
        \A h \in DOMAIN future :
            IF asked[h].op \in {"put", "delete"}
               /\ HasOption(asked[h].options, "transaction")
            THEN (\E c \in CallsOf("Commit", TransactionalBatchOf(h)) :
                     calls[c].reply.st # "none")
                 => done(future, h)
            ELSE done(future, h)

\* the futures on which the callback of the Lookup call c sets an outcome
\* when the call completes with the reply given
SetByLookup(c, reply) ==
    LET todo == heap[calls[c].batch].todo
    IN  IF reply.st # "ok" THEN Range(Chain(todo))
        ELSE UNION {Range(Slot(todo, SerializeToString(calls[c].keys[i]))) :
                      i \in {j \in DOMAIN calls[c].keys : reply.part[j] # "deferred"}}

\* a step leaves the outcome of every future that is done as it is, and the
\* callback of a Lookup or AllocateIds call that completes sets an outcome
\* only on futures that are not done
C11_SetOnceStep ==
    /\ \A h \in DOMAIN future : done(future, h) => future'[h] = future[h]
    /\ \A c \in pending \ pending' :
          /\ calls[c].kind = "Lookup" =>
                \A h \in SetByLookup(c, calls'[c].reply) : ~done(future, h)
          /\ calls[c].kind = "AllocateIds" =>
                \A h \in Range(calls[c].futs) : ~done(future, h)

\* C11: every future has an outcome set at most once: no response of a
\* Lookup, AllocateIds or Commit call sets an outcome on a future that is
\* done, and an outcome, once set, never changes.
C11_SingleAssignment == [][C11_SetOnceStep]_vars

\* the batches kept in the registry by options key: lookup batches and
\* commit batches outside a transaction
OptionKeyed == LookupBatches \cup NonTransactionalBatches

\* a batch of the registry is taken out of it by the step that flushes it,
\* a batch that is out of the registry stays out and keeps its content, and
\* whatever batch of the registry gets work is open afterwards and was
\* created after every batch with its class and options that is out
C12_SealedStep ==
    /\ \A b \in OptionKeyed :
          /\ (\E c \in DOMAIN calls' : c \notin DOMAIN calls /\ calls'[c].batch = b)
             => IsOpen(b) /\ ~IsOpen(b)'
          /\ ~IsOpen(b) => heap'[b] = heap[b] /\ ~IsOpen(b)'
    /\ \A nb \in OptionKeyed' :
          (nb \notin DOMAIN heap \/ heap'[nb] # heap[nb])
          => /\ IsOpen(nb)'
             /\ \A b \in OptionKeyed :
                   (/\ ~IsOpen(b)
                    /\ heap[b].cls = heap'[nb].cls
                    /\ SortedItems(heap[b].options) = SortedItems(heap'[nb].options))
                   => b < nb

\* C12: a lookup batch or commit batch outside a transaction leaves the
\* registry when it is flushed and gets no work from then on: later
\* operations with its class and options, and resubmitted deferred keys, go
\* to another batch, created after it left.
C12_Sealed == [][C12_SealedStep]_vars

\* a flushed batch and a later batch with the same class and options that
\* holds work the flushed one does not
C12_Witness ==
    \E b, nb \in OptionKeyed :
        /\ b < nb
        /\ heap[b].cls = heap[nb].cls
        /\ SortedItems(heap[b].options) = SortedItems(heap[nb].options)
        /\ \E c \in DOMAIN calls : calls[c].batch = b
        /\ heap[nb].todo # <<>> \/ heap[nb].futures # <<>>
        /\ heap[b].todo # heap[nb].todo

\* C13: when a Lookup call succeeds, every future of a key of its batch that
\* the response reports found gets the entity as its result, and every
\* future of a key reported missing gets _NOT_FOUND as its result (a result,
\* not an exception).
C13_FoundMissingStep ==
    \A c \in pending \ pending' :
        (calls[c].kind = "Lookup" /\ calls'[c].reply.st = "ok")
        => \A i \in DOMAIN calls[c].keys :
              LET key == calls[c].keys[i]
                  futs == Slot(heap[calls[c].batch].todo, SerializeToString(key))
                  heading == calls'[c].reply.part[i]
              IN  /\ futs # <<>>
                  /\ heading = "found" =>
                        \A h \in Range(futs) :
                           future'[h] = [st |-> "result", val |-> Entity(key)]
                  /\ heading = "missing" =>
                        \A h \in Range(futs) :
                           future'[h] = [st |-> "result", val |-> _NOT_FOUND]

C13_FoundMissing == [][C13_FoundMissingStep]_vars

\* one response reported a key with two futures found and another key
\* missing
C13_Witness ==
    \E c \in DOMAIN calls :
        /\ calls[c].kind = "Lookup"
        /\ calls[c].reply.st = "ok"
        /\ \E i, j \in DOMAIN calls[c].keys :
              LET todo == heap[calls[c].batch].todo
                  found == Slot(todo, SerializeToString(calls[c].keys[i]))
                  missing == Slot(todo, SerializeToString(calls[c].keys[j]))
              IN  /\ calls[c].reply.part[i] = "found"
                  /\ calls[c].reply.part[j] = "missing"
                  /\ Len(found) = 2
                  /\ \A h \in Range(found) :
                        future[h] = [st |-> "result", val |-> Entity(calls[c].keys[i])]
                  /\ \A h \in Range(missing) :
                        future[h] = [st |-> "result", val |-> _NOT_FOUND]

\* the batches that hold the future h, the Lookup calls issued for them with
\* the key of h, and those of these calls whose response deferred the key
BatchesOf(h) == {b \in LookupBatches : h \in Range(Chain(heap[b].todo))}

ReadCallsOf(h) ==
    {c \in DOMAIN calls : /\ calls[c].kind = "Lookup"
                          /\ calls[c].batch \in BatchesOf(h)
                          /\ asked[h].key \in Range(calls[c].keys)}

DeferralsOf(h) ==
    {c \in ReadCallsOf(h) :
        /\ calls[c].reply.st = "ok"
        /\ \E i \in DOMAIN calls[c].keys :
              calls[c].keys[i] = asked[h].key /\ calls[c].reply.part[i] = "deferred"}

\* every deferral of the key of a future puts the future into one more
\* batch, every flushed batch that holds it has one call that carries its
\* key, and a future that is done has had one call more than deferrals
C14_Retried ==
    \A h \in DOMAIN future :
        asked[h].op = "lookup" =>
            /\ Cardinality(BatchesOf(h)) = 1 + Cardinality(DeferralsOf(h))
            /\ \A b \in BatchesOf(h) :
                  Cardinality({c \in ReadCallsOf(h) : calls[c].batch = b})
                     = IF IsOpen(b) THEN 0 ELSE 1
            /\ ~done(future, h) =>
                  \A c \in ReadCallsOf(h) : c \in DeferralsOf(h) \/ c \in pending
            /\ done(future, h) =>
                  /\ Cardinality(ReadCallsOf(h)) = 1 + Cardinality(DeferralsOf(h))
                  /\ \E c \in ReadCallsOf(h) \ DeferralsOf(h) :
                        /\ calls[c].batch = BatchOf(h)
                        /\ future[h] = Outcome(calls[c].reply, calls[c].keys, asked[h].key)

\* C14: a key that a response defers is carried by the call of a later
\* flush, one more call for each deferral, and when the backend defers it a
\* bounded number of times the future of the lookup gets its found, missing
\* or error outcome from the call after the last deferral.
C14_RoundTrip ==
    /\ []C14_Retried
    /\ \A h \in 1..Cardinality(LookupKeys) :
          [](h \in DOMAIN future => <>(h \in DOMAIN future /\ done(future, h)))

\* a future got its result after its key was deferred three times
C14_Witness ==
    \E h \in DOMAIN future :
        /\ Cardinality(DeferralsOf(h)) = 3
        /\ Cardinality(ReadCallsOf(h)) = 4
        /\ future[h].st = "result"

\* C15: when a Commit call fails, every future of its batch that is not done
\* gets that error, every future that is done and every future of another
\* batch keeps what it has, and the future of the commit() that issued the
\* call fails as well.
C15_CommitFailureStep ==
    \A c \in pending \ pending' :
        (calls[c].kind = "Commit" /\ calls'[c].reply.st # "ok")
        => LET b == calls[c].batch
               t == calls[c].tasklet
           IN  /\ \A h \in DOMAIN future :
                     future'[h] = IF h \in Range(heap[b].futures) /\ ~done(future, h)
                                  THEN Failed(calls'[c].reply.st)
                                  ELSE future[h]
               /\ heap[b].cls = TransactionalCls =>
                     /\ t \in DOMAIN tasklets
                     /\ tasklets[t].pc = "sent"
                     /\ tasklets'[t].pc = "failed"

C15_CommitFailure == [][C15_CommitFailureStep]_vars

\* a commit() failed with its call: the future of a delete holds the error
\* and the future of a put with a complete key still holds None
C15_Witness ==
    \E c \in DOMAIN calls :
        /\ calls[c].kind = "Commit"
        /\ calls[c].reply.st = "TransportError"
        /\ calls[c].tasklet \in DOMAIN tasklets
        /\ tasklets[calls[c].tasklet].pc = "failed"
        /\ \E h, g \in Range(heap[calls[c].batch].futures) :
              /\ asked[h].op = "delete"
              /\ future[h] = Failed("TransportError")
              /\ asked[g].op = "put"
              /\ future[g] = [st |-> "result", val |-> NoneVal]

\* the commit() tasklets of batch b that have waited, or wait, for a marker
Awaited(b) ==
    {t \in DOMAIN tasklets :
        tasklets[t].batch = b /\ (tasklets[t].pc = "await" \/ tasklets[t].waited)}

\* C16: once a commit() of a transaction has begun to wait for the markers of
\* the allocations in flight, no AllocateIds call is issued for the batch of
\* that transaction: a put with an incomplete key that comes later starts no
\* allocation round.
C16_NoAllocationAfterAwait ==
    [][\A c \in DOMAIN calls' :
          (c \notin DOMAIN calls /\ calls'[c].kind = "AllocateIds")
          => Awaited(calls'[c].batch) = {}]_vars

\* the futures of the puts with a complete key inside a transaction
CompletePuts ==
    {h \in DOMAIN asked : /\ asked[h].op = "put"
                          /\ HasOption(asked[h].options, "transaction")
                          /\ _complete(asked[h].key)}

\* a put with a complete key inside a transaction appends its mutation and
\* its future to the batch of the transaction, returns the future with the
\* result None, and leaves the incomplete lists, the markers, the idle queue
\* and the calls as they are
C17_PutStep ==
    LET h == Len(future) + 1
    IN  (Len(future') = h /\ h \in CompletePuts')
        => LET transaction == Get(asked'[h].options, "transaction", None)
               b == commit_batches'[transaction]
               before == IF b \in DOMAIN heap
                         THEN heap[b] ELSE NewBatch(TransactionalCls, <<>>)
           IN  /\ heap'[b].mutations = Append(before.mutations, Upsert(asked'[h].key))
               /\ heap'[b].futures = Append(before.futures, h)
               /\ heap'[b].incomplete_mutations = before.incomplete_mutations
               /\ heap'[b].incomplete_futures = before.incomplete_futures
               /\ heap'[b].allocating_ids = before.allocating_ids
               /\ future'[h] = [st |-> "result", val |-> NoneVal]
               /\ UNCHANGED <<idlers, calls, pending>>

\* the future of such a put holds None whatever came later
C17_KeepsNone ==
    \A h \in CompletePuts : future[h] = [st |-> "result", val |-> NoneVal]

\* C17: a put with a complete key inside a transaction appends its mutation,
\* resolves its future at once with None, leaves the incomplete keys waiting
\* for allocation as they are and schedules no idle callback, and the
\* response of the commit does not change the future.
C17_CompleteKeyPut == [][C17_PutStep /\ C17_KeepsNone']_vars

\* the put joined a batch with an incomplete key waiting for allocation, and
\* its future holds None after the Commit call that carried it failed
C17_Witness ==
    \E h \in CompletePuts :
        LET b == TransactionalBatchOf(h)
        IN  /\ future[h] = [st |-> "result", val |-> NoneVal]
            /\ \E g \in IncompletePuts : g < h /\ TransactionalBatchOf(g) = b
            /\ \E c \in CallsOf("Commit", b) :
                  /\ calls[c].reply.st = "TransportError"
                  /\ PositionOf(h) <= Len(calls[c].mutations)

\* C18: when an AllocateIds call fails, the futures of its snapshot get that
\* error and no other future changes (not those of later puts, of puts with
\* a complete key or of deletes), and the mutations of the batch keep their
\* keys.
C18_AllocationFailureStep ==
    \A c \in pending \ pending' :
        (calls[c].kind = "AllocateIds" /\ calls'[c].reply.st # "ok")
        => /\ \A h \in DOMAIN future :
                 future'[h] = IF h \in Range(calls[c].futs)
                              THEN Failed(calls'[c].reply.st)
                              ELSE future[h]
           /\ heap'[calls[c].batch].mutations = heap[calls[c].batch].mutations
           /\ \A i \in DOMAIN calls[c].muts :
                 ~_complete(heap'[calls[c].batch].mutations[calls[c].muts[i]].key)

C19_MarkerStep ==
    \A c \in pending \ pending' :
        calls[c].kind = "AllocateIds"
        => heap'[calls[c].batch].allocating_ids[calls[c].marker]

\* a commit() that waits for a marker waits for a call that is in flight
C19_WaitsForCall ==
    \A t \in DOMAIN tasklets :
        (/\ tasklets[t].pc = "await"
         /\ ~heap[tasklets[t].batch].allocating_ids[tasklets[t].i])
        => \E c \in pending : /\ calls[c].kind = "AllocateIds"
                              /\ calls[c].batch = tasklets[t].batch
                              /\ calls[c].marker = tasklets[t].i

\* C19: the marker of every allocation round is resolved when its
\* AllocateIds call completes, whether the call succeeded or failed, so that
\* a commit() suspended on markers goes on once the calls have completed.
C19_MarkerResolved == [][C19_MarkerStep /\ C19_WaitsForCall']_vars

\* the idle callback of a transaction's batch issues, when incomplete keys
\* wait, one AllocateIds call for just these and empties the lists, and no
\* call when none waits
C20_FlushStep ==
    (idlers # <<>> /\ idlers' = Tail(idlers) /\ Head(idlers).fn = "idle_callback")
    => LET b == Head(idlers).batch
           waiting == heap[b].incomplete_mutations
           c == Len(calls) + 1
       IN  IF waiting = <<>>
           THEN UNCHANGED <<calls, pending, heap>>
           ELSE /\ Len(calls') = c
                /\ pending' = pending \cup {c}
                /\ calls'[c].kind = "AllocateIds"
                /\ calls'[c].batch = b
                /\ calls'[c].muts = waiting
                /\ calls'[c].futs = heap[b].incomplete_futures
                /\ calls'[c].keys =
                      [i \in DOMAIN waiting |-> heap[b].mutations[waiting[i]].key]
                /\ \A i \in DOMAIN waiting : ~_complete(calls'[c].keys[i])
                /\ heap'[b].incomplete_mutations = <<>>
                /\ heap'[b].incomplete_futures = <<>>
                /\ Len(heap'[b].allocating_ids) = Len(heap[b].allocating_ids) + 1

\* a put with an incomplete key schedules the idle callback of its batch
\* when no incomplete key waits there, and only then
C20_PutStep ==
    LET h == Len(future) + 1
    IN  (Len(future') = h /\ h \in IncompletePuts')
        => LET b == commit_batches'[Get(asked'[h].options, "transaction", None)]
               waiting == IF b \in DOMAIN heap
                          THEN heap[b].incomplete_mutations ELSE <<>>
           IN  /\ heap'[b].incomplete_mutations = Append(waiting, Len(heap'[b].mutations))
               /\ idlers' = IF waiting = <<>> THEN Append(idlers, IdleMethod(b))
                            ELSE idlers

\* a mutation is in one round at most, once, and never both in a round and
\* waiting; while incomplete keys wait the idle callback is scheduled
C20_OneRound ==
    \A b \in TransactionalBatches :
        /\ \A p \in DOMAIN heap[b].mutations :
              Cardinality({<<c, i>> \in CallsOf("AllocateIds", b) \X (1..Len(heap[b].mutations)) :
                              i \in DOMAIN calls[c].muts /\ calls[c].muts[i] = p})
              + Cardinality({i \in DOMAIN heap[b].incomplete_mutations :
                                heap[b].incomplete_mutations[i] = p}) <= 1
        /\ heap[b].incomplete_mutations # <<>> =>
              \E i \in DOMAIN idlers : idlers[i] = IdleMethod(b)

\* C20: each allocation flush issues one AllocateIds call for exactly the
\* incomplete keys that wait at that moment and empties the lists, so that a
\* mutation is in one AllocateIds call at most, and a put with an incomplete
\* key after a flush starts a round of its own with its own idle callback.
C20_AllocationRounds == [][C20_FlushStep /\ C20_PutStep /\ C20_OneRound']_vars

\* two rounds of one batch, the second for a put that came after the first
\* flush
C20_Witness ==
    \E b \in TransactionalBatches : \E c, d \in CallsOf("AllocateIds", b) :
        /\ c < d
        /\ Len(calls[c].muts) = 1 /\ Len(calls[d].muts) = 1
        /\ calls[c].muts[1] < calls[d].muts[1]
        /\ calls[c].marker = 1 /\ calls[d].marker = 2

\* the idle closures in the queue for the registry entry (cls, options_key)
ClosuresOf(cls, options_key) ==
    {i \in DOMAIN idlers : idlers[i] = IdleClosure(cls, options_key)}

\* the open batches of class cls whose options are the items of options, in
\* whatever order
OpenWith(cls, options) ==
    {b \in OptionKeyed : /\ IsOpen(b)
                         /\ heap[b].cls = cls
                         /\ Range(heap[b].options) = Range(options)}

\* every entry of the registry is a batch of its class with the items of its
\* key, no two open batches of a class have the same items, no batch is open
\* for two classes or keys, and the queue holds one idle closure for each
\* entry and none for anything else
C21_OnePerOptionSet ==
    /\ \A cls \in DOMAIN batches : \A k \in DOMAIN batches[cls] :
          LET b == batches[cls][k]
          IN  /\ heap[b].cls = cls
              /\ Range(heap[b].options) = Range(k)
              /\ OpenWith(cls, heap[b].options) = {b}
              /\ Cardinality(ClosuresOf(cls, k)) = 1
              /\ \A cls2 \in DOMAIN batches : \A k2 \in DOMAIN batches[cls2] :
                    batches[cls2][k2] = b => cls2 = cls /\ k2 = k
    /\ \A i \in DOMAIN idlers :
          idlers[i].fn = "idle" =>
              /\ idlers[i].cls \in DOMAIN batches
              /\ idlers[i].options_key \in DOMAIN batches[idlers[i].cls]

\* a step that creates a batch of the registry adds the one idle closure of
\* this batch, and there was no open batch of its class with its items; a
\* lookup, put or delete that finds such a batch joins it, creates none and
\* adds no idle closure
C21_AcquireStep ==
    LET nb == Len(heap) + 1
        h == Len(future) + 1
    IN  /\ (nb \in DOMAIN heap' /\ nb \in OptionKeyed') =>
              /\ Len(heap') = nb
              /\ OpenWith(heap'[nb].cls, heap'[nb].options) = {}
              /\ idlers' = Append(idlers, IdleClosure(heap'[nb].cls,
                                             SortedItems(heap'[nb].options)))
        /\ (/\ Len(future') = h
            /\ ~HasOption(asked'[h].options, "transaction")
            /\ OpenWith(IF asked'[h].op = "lookup" THEN LookupBatchCls
                        ELSE NonTransactionalCls, asked'[h].options) # {}) =>
              /\ heap' # heap
              /\ Len(heap') = Len(heap)
              /\ idlers' = idlers
              /\ \A b \in DOMAIN heap :
                    heap'[b] # heap[b] =>
                       b \in OpenWith(IF asked'[h].op = "lookup" THEN LookupBatchCls
                                      ELSE NonTransactionalCls, asked'[h].options)

\* C21: the registry holds at most one open batch per kind of operation and
\* option set, option sets that differ in the order of their items only are
\* one key, a lookup batch and a commit batch with equal options are two
\* batches, and one idle closure is registered per batch, by the acquisition
\* that created it; later acquisitions of the open batch register none.
C21_OneOpenBatch == [][C21_AcquireStep /\ C21_OnePerOptionSet']_vars

\* an open lookup batch holds two lookups whose options are one set in two
\* orders, and a commit batch with the same options is open beside it
C21_Witness ==
    \E b \in LookupBatches, cb \in NonTransactionalBatches :
        /\ IsOpen(b) /\ IsOpen(cb)
        /\ Range(heap[b].options) = Range(heap[cb].options)
        /\ \E h, g \in Range(Chain(heap[b].todo)) :
              /\ asked[h].options # asked[g].options
              /\ Range(asked[h].options) = Range(asked[g].options)
        /\ Cardinality(ClosuresOf(LookupBatchCls, SortedItems(heap[b].options))) = 1

\* the lookup batches that hold a future handed on from a batch flushed
\* before, that is, deferred keys
HoldsDeferred(b) ==
    /\ b \in LookupBatches
    /\ \E h \in Range(Chain(heap[b].todo)) : \E a \in BatchesOf(h) : a < b

\* the callback of a Lookup call issues no call, whatever the response
\* reports; when it reports deferred keys they wait afterwards in an open
\* batch for which no call has been issued
C22_ResponseStep ==
    \A c \in pending \ pending' :
        calls[c].kind = "Lookup" =>
            /\ Len(calls') = Len(calls)
            /\ pending' = pending \ {c}
            /\ \A d \in DOMAIN calls : d # c => calls'[d] = calls[d]
            /\ calls'[c] = [calls[c] EXCEPT !.reply = calls'[c].reply]
            /\ \A i \in DOMAIN calls[c].keys :
                  (calls'[c].reply.st = "ok" /\ calls'[c].reply.part[i] = "deferred") =>
                     \E nb \in LookupBatches' :
                        /\ IsOpen(nb)'
                        /\ SerializeToString(calls[c].keys[i])
                              \in {heap'[nb].todo[j].key : j \in DOMAIN heap'[nb].todo}
                        /\ HoldsDeferred(nb)'
                        /\ CallsOf("Lookup", nb)' = {}

\* a Lookup call is issued only by the step that runs the idle closure of
\* its batch and takes the batch out of the registry, and the idle closure of
\* a batch that holds deferred keys issues exactly one call, for the keys of
\* the batch
C22_FlushStep ==
    /\ \A c \in DOMAIN calls' \ DOMAIN calls :
          calls'[c].kind = "Lookup" =>
             /\ idlers # <<>> /\ idlers' = Tail(idlers)
             /\ Head(idlers).fn = "idle" /\ Head(idlers).cls = LookupBatchCls
             /\ OpenLookups[Head(idlers).options_key] = calls'[c].batch
             /\ \A b \in DOMAIN heap : b = calls'[c].batch => ~IsOpen(b)'
    /\ (/\ idlers # <<>> /\ idlers' = Tail(idlers)
        /\ Head(idlers).fn = "idle" /\ Head(idlers).cls = LookupBatchCls
        /\ HoldsDeferred(OpenLookups[Head(idlers).options_key])) =>
          LET b == OpenLookups[Head(idlers).options_key]
              c == Len(calls) + 1
          IN  /\ Len(calls') = c
              /\ pending' = pending \cup {c}
              /\ calls'[c].kind = "Lookup" /\ calls'[c].batch = b
              /\ calls'[c].keys =
                    [i \in DOMAIN heap[b].todo |-> ParseFromString(heap[b].todo[i].key)]

\* C22: processing a Lookup response that reports deferred keys issues no
\* call within the response callback; the retry call is issued only when the
\* idle callback of the batch that holds the deferred keys runs, and each
\* such idle callback issues exactly one Lookup call.
C22_RetryOnIdle == [][C22_ResponseStep /\ C22_FlushStep]_vars

\* two keys deferred by one response were read again by one call, issued for
\* the batch they were handed to
C22_Witness ==
    \E c, d \in DOMAIN calls :
        /\ c < d
        /\ calls[c].kind = "Lookup" /\ calls[d].kind = "Lookup"
        /\ calls[c].reply.st = "ok"
        /\ Len(calls[c].keys) = 2
        /\ \A i \in DOMAIN calls[c].keys : calls[c].reply.part[i] = "deferred"
        /\ HoldsDeferred(calls[d].batch)
        /\ Range(calls[d].keys) = Range(calls[c].keys)
        /\ CallsOf("Lookup", calls[d].batch) = {d}

\* the Commit calls issued by the invocation t of commit()
CommitCallsOf(t) ==
    {c \in DOMAIN calls : calls[c].kind = "Commit" /\ calls[c].tasklet = t}

\* an invocation of commit() on a batch without mutations is done at once,
\* having issued no call and waited for nothing; one on a batch with
\* mutations is not done by the step that invokes it
C23_InvokeStep ==
    LET t == Len(tasklets) + 1
    IN  Len(tasklets') = t =>
           LET b == tasklets'[t].batch
           IN  IF b \notin DOMAIN heap \/ heap[b].mutations = <<>>
               THEN /\ tasklets'[t] = Tasklet(b, "done", 0, FALSE)
                    /\ calls' = calls /\ pending' = pending
                    /\ future' = future
               ELSE /\ tasklets'[t].pc \in {"await", "sent"}
                    /\ Len(calls') = Len(calls) + (IF tasklets'[t].pc = "sent" THEN 1 ELSE 0)

\* an invocation issues no Commit call while it waits for a marker, has one
\* call in flight once it has issued it, and is finished either without any
\* call (the batch was empty) or after the one call it issued has completed
\* and, on success, every future of a mutation of the call is done
C23_OneCall ==
    \A t \in DOMAIN tasklets :
        LET cs == CommitCallsOf(t)
            pc == tasklets[t].pc
        IN  /\ Cardinality(cs) <= 1
            /\ pc = "await" => cs = {}
            /\ pc = "sent" => cs # {} /\ cs \subseteq pending
            /\ pc \in {"done", "failed"} =>
                  \/ cs = {} /\ pc = "done" /\ ~tasklets[t].waited
                  \/ \E c \in cs :
                        /\ c \notin pending
                        /\ calls[c].mutations # <<>>
                        /\ calls[c].reply.st = "ok" <=> pc = "done"
                        /\ \A i \in DOMAIN calls[c].mutations :
                              done(future, heap[calls[c].batch].futures[i])

\* the future of an invocation that issued a call is resolved by the step in
\* which this call completes, and by no other
C23_ResolveStep ==
    \A t \in DOMAIN tasklets :
        (tasklets[t].pc \notin {"done", "failed"} /\ tasklets'[t].pc \in {"done", "failed"})
        => \E c \in CommitCallsOf(t) : c \in pending /\ c \notin pending'

\* C23: commit() on a transaction whose batch has no mutations completes
\* without a Commit call and without waiting; commit() on a batch with
\* mutations issues one Commit call per invocation, and its future is
\* resolved only when the response of this call has been handed to the
\* futures of the mutations.
C23_CommitCalls == [][C23_InvokeStep /\ C23_ResolveStep /\ C23_OneCall']_vars

\* one invocation finished on the empty batch without a call, a later one
\* after its one call had succeeded
C23_Witness ==
    \E t, u \in DOMAIN tasklets :
        /\ t < u
        /\ tasklets[t].pc = "done" /\ CommitCallsOf(t) = {}
        /\ tasklets[u].pc = "done" /\ Cardinality(CommitCallsOf(u)) = 1
        /\ \A c \in CommitCallsOf(u) :
              calls[c].reply.st = "ok" /\ calls[c].mutations # <<>>

\* the Commit calls of batch b that carry a mutation whose key is incomplete:
\* commit() came before the allocation of this key
CommitsIncomplete(b) ==
    {c \in CallsOf("Commit", b) :
        \E i \in DOMAIN calls[c].mutations : ~_complete(calls[c].mutations[i].key)}

\* commit() invoked while incomplete keys wait and no marker is unfinished
\* empties the lists and issues the Commit call with these keys incomplete
C24_CommitStep ==
    LET t == Len(tasklets) + 1
    IN  Len(tasklets') = t =>
           LET b == tasklets'[t].batch
           IN  (/\ b \in DOMAIN heap
                /\ heap[b].incomplete_mutations # <<>>
                /\ NextUnfinished(heap[b].allocating_ids, 1) = 0) =>
                  LET c == Len(calls) + 1
                  IN  /\ heap'[b].incomplete_mutations = <<>>
                      /\ heap'[b].incomplete_futures = <<>>
                      /\ Len(calls') = c /\ c \in pending'
                      /\ calls'[c].kind = "Commit" /\ calls'[c].tasklet = t
                      /\ calls'[c].mutations = heap[b].mutations
                      /\ \A i \in Range(heap[b].incomplete_mutations) :
                            ~_complete(calls'[c].mutations[i].key)

\* the idle callback of a batch that runs after such a commit issues no call
C24_FlushStep ==
    (/\ idlers # <<>> /\ idlers' = Tail(idlers)
     /\ Head(idlers).fn = "idle_callback"
     /\ CommitsIncomplete(Head(idlers).batch) # {})
    => calls' = calls /\ pending' = pending /\ heap' = heap

\* the futures of the incomplete keys of a Commit call get, when the call
\* succeeds, the key that the response holds at the position of their
\* mutation, and no AllocateIds call is ever issued for these mutations
C24_PositionalStep ==
    \A c \in pending \ pending' :
        (calls[c].kind = "Commit" /\ calls[c].transaction # None
         /\ calls'[c].reply.st = "ok") =>
            \A i \in DOMAIN calls[c].mutations :
                LET h == heap[calls[c].batch].futures[i]
                IN  (~_complete(calls[c].mutations[i].key) /\ ~done(future, h)) =>
                       /\ future'[h] = [st |-> "result",
                                        val |-> KeyVal(MutationResults(c)[i])]
                       /\ \A a \in CallsOf("AllocateIds", calls[c].batch) :
                             i \notin Range(calls[a].muts)

\* C24: when commit() is invoked on a transaction after puts with incomplete
\* keys and before their idle callback has run, no AllocateIds call being in
\* flight, commit empties the incomplete lists and issues the Commit call
\* with these keys incomplete, the idle callback that runs later issues no
\* AllocateIds call, and the futures of these puts are resolved by position
\* from the Commit response.
C24_CommitBeforeFlush ==
    [][C24_CommitStep /\ C24_FlushStep /\ C24_PositionalStep]_vars

\* the transaction that the operation of future h named, or None
NamedBy(h) == Get(asked[h].options, "transaction", None)

\* the batches that hold the future h
HoldersOf(h) ==
    {b \in DOMAIN heap : h \in Range(heap[b].futures) \cup Range(Chain(heap[b].todo))}

\* commit_batches maps each transaction to a transactional batch of its own
\* that is not in the registry kept by options key; the future of every put
\* and delete that named a transaction is in the batch of this transaction
\* and in no other, the future of one that named none is in a batch that is
\* not transactional; every invocation of commit() works on a batch of
\* commit_batches, and every Commit call carries mutations of the one batch
\* it was issued for, under the transaction of that batch
C25_Keyed ==
    /\ \A tr \in DOMAIN commit_batches :
          LET b == commit_batches[tr]
          IN  /\ b \in TransactionalBatches
              /\ heap[b].transaction = tr
              /\ ~IsOpen(b)
              /\ \A ur \in DOMAIN commit_batches : commit_batches[ur] = b => ur = tr
    /\ \A b \in TransactionalBatches :
          /\ heap[b].transaction \in DOMAIN commit_batches
          /\ commit_batches[heap[b].transaction] = b
    /\ \A h \in DOMAIN future :
          asked[h].op \in {"put", "delete"} =>
             IF NamedBy(h) # None
             THEN /\ NamedBy(h) \in DOMAIN commit_batches
                  /\ HoldersOf(h) = {commit_batches[NamedBy(h)]}
             ELSE /\ HoldersOf(h) # {}
                  /\ HoldersOf(h) \subseteq NonTransactionalBatches
    /\ \A t \in DOMAIN tasklets : tasklets[t].batch \in TransactionalBatches
    /\ \A c \in DOMAIN calls :
          calls[c].kind = "Commit" =>
             LET b == calls[c].batch
             IN  /\ calls[c].transaction = heap[b].transaction
                 /\ calls[c].transaction # None <=> b \in TransactionalBatches
                 /\ Len(calls[c].mutations) <= Len(heap[b].mutations)
                 /\ \A i \in DOMAIN calls[c].mutations :
                       /\ calls[c].mutations[i].op = heap[b].mutations[i].op
                       /\ NamedBy(heap[b].futures[i]) = calls[c].transaction

\* no step, an idle callback no more than any other, takes a transaction's
\* batch out of commit_batches or puts another in its place, and an operation
\* that names a transaction that has a batch creates none
C25_KeptStep ==
    /\ \A tr \in DOMAIN commit_batches :
          tr \in DOMAIN commit_batches' /\ commit_batches'[tr] = commit_batches[tr]
    /\ \A b \in DOMAIN heap' \ DOMAIN heap :
          b \in TransactionalBatches' => heap'[b].transaction \notin DOMAIN commit_batches

\* C25: the batches of transactions are kept by transaction id, apart from
\* the registry kept by options key; every put, delete and commit that names
\* a transaction works on the one batch of this transaction, which no idle
\* callback removes; operations that name different transactions share no
\* batch and no Commit call; a put or delete that names no transaction is
\* never in a transactional batch.
C25_OneBatchPerTransaction == [][C25_KeptStep /\ C25_Keyed']_vars

\* a commit of one transaction found the batch of a put made before an idle
\* callback of this batch ran and issued its call for it, while the put of
\* another transaction waits in a batch of its own
C25_Witness ==
    \E h, g \in DOMAIN future : \E c \in DOMAIN calls :
        /\ NamedBy(h) = "T1" /\ NamedBy(g) = "T2"
        /\ HoldersOf(h) # HoldersOf(g)
        /\ CallsOf("AllocateIds", commit_batches["T1"]) # {}
        /\ calls[c].kind = "Commit" /\ calls[c].transaction = "T1"
        /\ calls[c].batch = commit_batches["T1"]
        /\ Len(calls[c].mutations) = 1
        /\ CallsOf("Commit", commit_batches["T2"]) = {}

====
